---- MODULE Spec2Model ----
(***************************************************************************)
(* A model of blih 1.7 (src/blih/__init__.py): the signed request protocol *)
(* (sign_data), the HTTP gateway (blih) and the nine commands that call    *)
(* it.  One run of the process is one behaviour; everything the process    *)
(* does to the outside world (prompts, HTTP requests, log lines, prints,   *)
(* tracebacks) is appended to the I/O trace `events`.                      *)
(*                                                                         *)
(* Representation of Python values:                                        *)
(*   None            <<>>                                                  *)
(*   a present value <<v>>            (an optional is a 0/1-tuple)         *)
(*   str             a TLA+ string; \o is Python's +                       *)
(*   payload dict    a sequence of <<key, value>> pairs with distinct keys *)
(*                   in insertion order (str -> str, as in every command)  *)
(*   parsed JSON     a tagged value [t |-> "str"|"dict"|"list", v |-> ...] *)
(* A digest is a symbolic term over its inputs: the only thing assumed of  *)
(* SHA-512 and HMAC is that equal inputs give equal outputs.               *)
(***************************************************************************)
EXTENDS Naturals, Sequences, FiniteSets, TLC

VARIABLES args, fs, pc, call, signed_data, req, ret, events, exitcode, prev

vars == <<args, fs, pc, call, signed_data, req, ret, events, exitcode, prev>>

None == <<>>

Some(x) == <<x>>

Range(s) == {s[i] : i \in 1..Len(s)}

RECURSIVE Join(_, _)
\* str.join: the strings of parts with sep between them.
Join(parts, sep) ==
    IF parts = <<>> THEN ""
    ELSE IF Len(parts) = 1 THEN parts[1]
    ELSE parts[1] \o sep \o Join(Tail(parts), sep)

----------------------------------------------------------------------------
(* Module constants.                                                       *)

version == "1.7"

USER_AGENT == "blih-" \o version

URL == "https://blih.epitech.eu"

----------------------------------------------------------------------------
(* Bounds and input universes.                                             *)

\* The largest payload mapping handed to sign_data by the signing harness.
MaxPairs == 2

Users == {"alice", "bob"}

\* -t/--token: absent, a digest, or the empty string.
Tokens == {None, Some("deadbeef"), Some("")}

Passphrases == {"hunter2"}

RepoNames == {"myrepo", "alice"}

AclUsers == {"bob"}

Acls == {"r", "w"}

KeyFiles == {"/home/alice/.ssh/id_rsa.pub"}

Comments == {"alice@host", "bob"}

\* Keys of the harness payloads, with the code points Python compares them by.
KeyCodes ==
    [k \in {"a", "acl", "b", "name", "sshkey", "type", "user"} |->
        CASE k = "a"      -> <<97>>
          [] k = "acl"    -> <<97, 99, 108>>
          [] k = "b"      -> <<98>>
          [] k = "name"   -> <<110, 97, 109, 101>>
          [] k = "sshkey" -> <<115, 115, 104, 107, 101, 121>>
          [] k = "type"   -> <<116, 121, 112, 101>>
          [] k = "user"   -> <<117, 115, 101, 114>>]

HarnessKeys == {"a", "acl", "b"}

HarnessValues == {"1", "2"}

\* Every dict of at most n pairs over the harness keys, in every insertion order.
DictsUpTo(n) ==
    {d \in UNION {[1..m -> HarnessKeys \X HarnessValues] : m \in 0..n} :
        \A i, j \in 1..Len(d) : i # j => d[i][1] # d[j][1]}

\* The data argument of sign_data: None or a dict.
HarnessData == {None} \cup {Some(d) : d \in DictsUpTo(MaxPairs)}

----------------------------------------------------------------------------
(* dict helpers.                                                           *)

Keys(d) == {d[i][1] : i \in 1..Len(d)}

\* d[k] for a key the dict holds.
Get(d, k) == (CHOOSE p \in Range(d) : p[1] = k)[2]

\* Python's == on dicts: the same key/value pairs, whatever the order.
SamePairs(d, e) == Range(d) = Range(e)

----------------------------------------------------------------------------
(* json.dumps(data, sort_keys=True, indent=4, separators=(',', ': ')).     *)

RECURSIVE CodesLess(_, _)
\* Python's < on str: lexicographic on code points, a proper prefix first.
CodesLess(a, b) ==
    IF b = <<>> THEN FALSE
    ELSE IF a = <<>> THEN TRUE
    ELSE IF a[1] # b[1] THEN a[1] < b[1]
    ELSE CodesLess(Tail(a), Tail(b))

KeyLess(j, k) == CodesLess(KeyCodes[j], KeyCodes[k])

RECURSIVE InsertSorted(_, _)
InsertSorted(p, s) ==
    IF s = <<>> THEN <<p>>
    ELSE IF KeyLess(p[1], s[1][1]) THEN <<p>> \o s
    ELSE <<s[1]>> \o InsertSorted(p, Tail(s))

\* A serializer that forgets sort_keys=True: the items in insertion order.
UnsortedItems(d) == d

RECURSIVE SortedItems(_)
\* sort_keys=True: the items of d in ascending key order.
SortedItems(d) ==
    IF d = <<>> THEN <<>>
    ELSE InsertSorted(d[1], SortedItems(Tail(d)))

\* A str as a JSON string literal (the model's strings need no escaping).
Quoted(s) == "\"" \o s \o "\""

\* indent=4, separators=(',', ': '): one "key": "value" line per item.
FormatItems(items) ==
    IF items = <<>> THEN "{}"
    ELSE "{\n"
         \o Join([i \in 1..Len(items) |->
                    "    " \o Quoted(items[i][1]) \o ": " \o Quoted(items[i][2])], ",\n")
         \o "\n}"

\* The signature input (line 63).
CanonicalJSON(d) == FormatItems(SortedItems(d))

----------------------------------------------------------------------------
(* Digests, as symbolic terms.                                             *)

\* hashlib.sha512(bytes(s, 'utf8')).hexdigest()
Sha512Hex(s) == "sha512(" \o s \o ")"

\* hmac.new(bytes(key), msg=bytes(msg), digestmod=sha512).hexdigest()
HmacSha512Hex(key, msg) == "hmac-sha512(" \o key \o ")(" \o msg \o ")"

----------------------------------------------------------------------------
(* sign_data, after the token is resolved (lines 59-70).                   *)

\* `if data:` is false for None and for the empty dict.
DataIsTruthy(data) == data # None /\ data[1] # <<>>

\* A sign_data that signs the payload but forgets signed_data['data'] = data.
SignedDataNoPayload(user, token, data) ==
    [user |-> user, data |-> None,
     signature |-> IF DataIsTruthy(data)
                   THEN HmacSha512Hex(token, user \o CanonicalJSON(data[1]))
                   ELSE HmacSha512Hex(token, user)]

\* The dict sign_data returns; data |-> None stands for "no 'data' key".
SignedData(user, token, data) ==
    IF DataIsTruthy(data)
    THEN [user |-> user, data |-> data,
          signature |-> HmacSha512Hex(token, user \o CanonicalJSON(data[1]))]
    ELSE [user |-> user, data |-> None, signature |-> HmacSha512Hex(token, user)]

----------------------------------------------------------------------------
(* json.dumps(signed_data): the request body, default separators, keys in  *)
(* insertion order ('data' first when present, then 'user', 'signature').  *)

DumpsDict(d) ==
    "{" \o Join([i \in 1..Len(d) |-> Quoted(d[i][1]) \o ": " \o Quoted(d[i][2])], ", ") \o "}"

DumpsSignedData(sd) ==
    "{"
    \o (IF sd.data # None THEN Quoted("data") \o ": " \o DumpsDict(sd.data[1]) \o ", " ELSE "")
    \o Quoted("user") \o ": " \o Quoted(sd.user) \o ", "
    \o Quoted("signature") \o ": " \o Quoted(sd.signature)
    \o "}"

----------------------------------------------------------------------------
(* req.json(): the response body is a sequence of lexical tokens, parsed   *)
(* by recursive descent into a tagged value, or rejected (ValueError).     *)

Punct(c) == [p |-> c]

Lit(s) == [s |-> s]

Junk(x) == [raw |-> x]

Str(s) == [t |-> "str", v |-> s]

Dict(pairs) == [t |-> "dict", v |-> pairs]

List(items) == [t |-> "list", v |-> items]

ParseFail == [ok |-> FALSE, val |-> Str(""), next |-> 0]

IsLit(toks, i) == i <= Len(toks) /\ DOMAIN toks[i] = {"s"}

IsPunct(toks, i, c) == i <= Len(toks) /\ toks[i] = Punct(c)

RECURSIVE ParseValue(_, _)
RECURSIVE ParseMembers(_, _, _)
RECURSIVE ParseElements(_, _, _)
\* value := string | object | array, starting at token i.
ParseValue(toks, i) ==
    IF IsLit(toks, i) THEN [ok |-> TRUE, val |-> Str(toks[i].s), next |-> i + 1]
    ELSE IF IsPunct(toks, i, "{")
    THEN IF IsPunct(toks, i + 1, "}")
         THEN [ok |-> TRUE, val |-> Dict(<<>>), next |-> i + 2]
         ELSE ParseMembers(toks, i + 1, <<>>)
    ELSE IF IsPunct(toks, i, "[")
    THEN IF IsPunct(toks, i + 1, "]")
         THEN [ok |-> TRUE, val |-> List(<<>>), next |-> i + 2]
         ELSE ParseElements(toks, i + 1, <<>>)
    ELSE ParseFail

\* members := string ":" value ("," members | "}")
ParseMembers(toks, i, acc) ==
    IF ~(IsLit(toks, i) /\ IsPunct(toks, i + 1, ":")) THEN ParseFail
    ELSE LET r == ParseValue(toks, i + 2)
             got == Append(acc, <<toks[i].s, r.val>>)
         IN  IF ~r.ok THEN ParseFail
             ELSE IF IsPunct(toks, r.next, ",") THEN ParseMembers(toks, r.next + 1, got)
             ELSE IF IsPunct(toks, r.next, "}")
             THEN [ok |-> TRUE, val |-> Dict(got), next |-> r.next + 1]
             ELSE ParseFail

\* elements := value ("," elements | "]")
ParseElements(toks, i, acc) ==
    LET r == ParseValue(toks, i)
        got == Append(acc, r.val)
    IN  IF ~r.ok THEN ParseFail
        ELSE IF IsPunct(toks, r.next, ",") THEN ParseElements(toks, r.next + 1, got)
        ELSE IF IsPunct(toks, r.next, "]")
        THEN [ok |-> TRUE, val |-> List(got), next |-> r.next + 1]
        ELSE ParseFail

\* The whole body must be one value.
ParseJSON(toks) ==
    LET r == ParseValue(toks, 1)
    IN  IF r.ok /\ r.next = Len(toks) + 1 THEN [ok |-> TRUE, val |-> r.val]
        ELSE [ok |-> FALSE, val |-> Str("")]

\* The response bodies the server side of the model may send.
Bodies ==
    { <<Punct("{"), Lit("message"), Punct(":"), Lit("ok"), Punct("}")>>,
      <<Punct("{"), Lit("message"), Punct(":"), Lit(""), Punct("}")>>,
      <<Punct("{"), Lit("message"), Punct(":"),
            Punct("{"), Lit("description"), Punct(":"), Lit("None"), Punct(","),
                        Lit("public"), Punct(":"), Lit("False"), Punct("}"),
        Punct("}")>>,
      <<Punct("{"), Lit("repositories"), Punct(":"),
            Punct("{"), Lit("myrepo"), Punct(":"), Punct("{"), Punct("}"), Punct("}"),
        Punct("}")>>,
      <<Punct("{"), Lit("error"), Punct(":"), Lit("forbidden"), Punct("}")>>,
      <<Punct("{"), Lit("error"), Punct(":"), Lit("Bad token"), Punct(","),
                    Lit("message"), Punct(":"), Lit("ok"), Punct("}")>>,
      <<Punct("{"), Punct("}")>>,
      <<Punct("["), Lit("myrepo"), Punct("]")>>,
      <<Punct("{"), Lit("error"), Punct(":")>>,
      <<Junk("<html>")>>,
      <<>> }

StatusCodes == {200, 403, 500}

\* What requests.<method>(...) can do: raise, or hand back a response.
RequestOutcomes ==
    {[raised |-> x] : x \in {"ConnectionError", "Timeout", "HTTPError"}}
    \cup {[status_code |-> s, body |-> b] : s \in StatusCodes, b \in Bodies}

\* Python truthiness of a parsed value.
Truthy(val) == val.v # IF val.t = "str" THEN "" ELSE <<>>

\* data[key] on a parsed value: the item, KeyError, or TypeError when the
\* value is a list or a str (their indices must be integers).
Subscript(val, key) ==
    IF val.t # "dict" THEN [raised |-> "TypeError"]
    ELSE IF key \in Keys(val.v) THEN [item |-> Get(val.v, key)]
    ELSE [raised |-> "KeyError"]

Raised(r) == "raised" \in DOMAIN r

----------------------------------------------------------------------------
(* The key file: what open() and read() do, and urllib.parse.quote.        *)

\* File contents are sequences of characters; a run of unreserved
\* characters, which quote() leaves alone, is written as one element.
FileContents ==
    { <<"ssh-rsa", " ", "AAAAB3", "+", "/", "=", " ", "alice", "@", "host", "\n">>,
      <<"\n", "\n">>,
      <<>> }

\* The file system as sshkey_upload finds it.
FileStates ==
    {[open |-> x, decodes |-> FALSE, chars |-> <<>>] :
        x \in {"FileNotFoundError", "PermissionError", "IsADirectoryError"}}
    \cup {[open |-> "opened", decodes |-> FALSE, chars |-> <<>>]}
    \cup {[open |-> "opened", decodes |-> TRUE, chars |-> c] : c \in FileContents}

RECURSIVE LStrip(_)
LStrip(cs) == IF cs # <<>> /\ cs[1] = "\n" THEN LStrip(Tail(cs)) ELSE cs

RECURSIVE RStrip(_)
RStrip(cs) ==
    IF cs # <<>> /\ cs[Len(cs)] = "\n" THEN RStrip(SubSeq(cs, 1, Len(cs) - 1)) ELSE cs

\* str.strip('\n')
Strip(cs) == RStrip(LStrip(cs))

\* quote() of one character: percent-encoded unless unreserved or '/'.
QuoteChar(c) ==
    CASE c = " "  -> "%20"
      [] c = "+"  -> "%2B"
      [] c = "="  -> "%3D"
      [] c = "@"  -> "%40"
      [] c = "\n" -> "%0A"
      [] OTHER    -> c

\* urllib.parse.quote(s)
Quote(cs) == Join([i \in 1..Len(cs) |-> QuoteChar(cs[i])], "")

----------------------------------------------------------------------------
(* The parsed command line (main, lines 253-380): vars(argument).          *)

Credentials == [user : Users, token : Tokens]

WithCredentials(rest) ==
    {[k \in DOMAIN c \cup DOMAIN r |-> IF k \in DOMAIN r THEN r[k] ELSE c[k]] :
        c \in Credentials, r \in rest}

Arguments ==
    WithCredentials(
        [func : {"repository_create", "repository_delete", "repository_info",
                 "repository_getacl"}, name : RepoNames]
        \cup [func : {"repository_list", "sshkey_list"}]
        \cup [func : {"repository_setacl"}, name : RepoNames, user_acl : AclUsers,
              acl : Acls]
        \cup [func : {"sshkey_upload"}, keyfile : KeyFiles]
        \cup [func : {"sshkey_delete"}, comment : Comments])

----------------------------------------------------------------------------
(* The I/O trace.                                                          *)

GetPassEvent(result) == [e |-> "getpass", result |-> result]

RequestEvent(verb, url, headers, data) ==
    [e |-> "request", verb |-> verb, url |-> url, headers |-> headers, data |-> data]

\* logger.critical(msg); CRITICAL passes every level main can configure.
CriticalEvent(msg) == [e |-> "critical", msg |-> msg]

\* print(*objs)
PrintEvent(objs) == [e |-> "print", objs |-> objs]

\* The traceback of an exception nothing catches; filename is the
\* exception's file name when it is an OSError, else None.
TracebackEvent(type, filename) == [e |-> "traceback", type |-> type, filename |-> filename]

EventsOf(kind) == SelectSeq(events, LAMBDA ev : ev.e = kind)

Prompts == EventsOf("getpass")

Requests == EventsOf("request")

Criticals == EventsOf("critical")

\* The position of the first event of a kind, 0 when there is none.
FirstIndex(kind) ==
    IF \E i \in 1..Len(events) : events[i].e = kind
    THEN CHOOSE i \in 1..Len(events) :
            events[i].e = kind /\ \A j \in 1..(i - 1) : events[j].e # kind
    ELSE 0

Running == exitcode = None

Exited(code) == exitcode = Some(code)

----------------------------------------------------------------------------
(* Ways a step ends.                                                       *)

\* sys.exit(code), or main returning (code 0), after emitting evs.
Exit(code, evs) ==
    /\ events' = events \o evs
    /\ exitcode' = Some(code)
    /\ pc' = "exit"

\* An exception no handler catches: the interpreter prints the traceback
\* and the process ends with status 1.
Uncaught(type, filename, evs) ==
    Exit(1, evs \o <<TracebackEvent(type, filename)>>)

\* The call blih(method, resource, user, token, data): control enters
\* sign_data, the innermost argument of the request call (lines 80-90).
CallBlih(method, resource, user, token, data, evs) ==
    /\ call' = [method |-> method, resource |-> resource, user |-> user,
                token |-> token, data |-> data]
    /\ events' = events \o evs
    /\ pc' = "sign_data"
    /\ UNCHANGED <<args, fs, signed_data, req, ret, exitcode, prev>>

----------------------------------------------------------------------------
(* sign_data (lines 49-70).                                                *)

\* `if not token:` in place of `if token == None:`.
NeedsPromptIfFalsy(token) == token = None \/ token = Some("")

\* Line 53: only a missing token is prompted for.
NeedsPrompt(token) == token = None

\* getpass() where Ctrl-C is read as an empty passphrase.
GetPassInterruptAsEmpty(result, passphrase) ==
    CASE result = "entered" -> [kind |-> "token", token |-> Sha512Hex(passphrase)]
      [] result = "KeyboardInterrupt" -> [kind |-> "token", token |-> Sha512Hex("")]
      [] result = "EOFError" -> [kind |-> "uncaught", type |-> "EOFError"]

\* Lines 54-57: the digest of what was typed; Ctrl-C is sys.exit(1); the
\* EOFError of a closed terminal is not handled.
GetPass(result, passphrase) ==
    CASE result = "entered" -> [kind |-> "token", token |-> Sha512Hex(passphrase)]
      [] result = "KeyboardInterrupt" -> [kind |-> "exit", code |-> 1]
      [] result = "EOFError" -> [kind |-> "uncaught", type |-> "EOFError"]

\* Lines 53-57: the prompt, when no token was given.
sign_data_getpass ==
    /\ pc = "sign_data"
    /\ NeedsPrompt(call.token)
    /\ \E result \in {"entered", "KeyboardInterrupt", "EOFError"}, p \in Passphrases :
        LET o == GetPass(result, p)
            ev == <<GetPassEvent(result)>>
        IN  CASE o.kind = "token" ->
                    /\ call' = [call EXCEPT !.token = Some(o.token)]
                    /\ events' = events \o ev
                    /\ UNCHANGED <<pc, exitcode>>
              [] o.kind = "exit" -> Exit(o.code, ev) /\ UNCHANGED call
              [] o.kind = "uncaught" -> Uncaught(o.type, None, ev) /\ UNCHANGED call
    /\ UNCHANGED <<args, fs, signed_data, req, ret, prev>>

\* Lines 59-70: the signature and the dict handed back to blih.
sign_data_sign ==
    /\ pc = "sign_data"
    /\ ~NeedsPrompt(call.token)
    /\ signed_data' = Some(SignedData(call.user, call.token[1], call.data))
    /\ pc' = "request"
    /\ UNCHANGED <<args, fs, call, req, ret, events, exitcode, prev>>

----------------------------------------------------------------------------
(* blih (lines 72-106).                                                    *)

Headers == [UserAgent |-> USER_AGENT, ContentType |-> "application/json"]

\* getattr(requests, method): the function that sends the verb of its name.
HttpVerb(method) ==
    CASE method = "post" -> "POST"
      [] method = "get" -> "GET"
      [] method = "delete" -> "DELETE"

\* Lines 78-97: the one requests call and its except clauses.
blih_request ==
    /\ pc = "request"
    /\ \E o \in RequestOutcomes :
        LET ev == <<RequestEvent(HttpVerb(call.method), URL \o call.resource, Headers,
                                 DumpsSignedData(signed_data[1]))>>
        IN  IF Raised(o)
            THEN /\ Exit(1, ev \o <<CriticalEvent(
                        IF o.raised = "HTTPError" THEN Str("An HTTP Error occured")
                        ELSE Str("Can't connect to " \o URL))>>)
                 /\ UNCHANGED req
            ELSE /\ req' = Some(o)
                 /\ events' = events \o ev
                 /\ pc' = "response"
                 /\ UNCHANGED exitcode
    /\ UNCHANGED <<args, fs, call, signed_data, ret, prev>>

\* A blih that wraps req.json() in `except ValueError: data = {}`.
ClassifySwallow(status_code, body) ==
    LET parsed == ParseJSON(body)
        val == IF parsed.ok THEN parsed.val ELSE Dict(<<>>)
        sub == Subscript(val, "error")
    IN  IF status_code # 200
        THEN IF ~Raised(sub) THEN [kind |-> "exit", critical |-> sub.item]
             ELSE IF sub.raised = "KeyError"
             THEN [kind |-> "exit", critical |-> Str("Unknown error")]
             ELSE [kind |-> "uncaught", type |-> sub.raised]
        ELSE [kind |-> "return", val |-> val]

\* A blih that logs the error of a non-200 response and forgets sys.exit(1).
ClassifyNoExit(status_code, body) ==
    LET parsed == ParseJSON(body)
    IN  IF ~parsed.ok THEN [kind |-> "uncaught", type |-> "ValueError"]
        ELSE [kind |-> "return", val |-> parsed.val]

\* A blih that catches every exception of data['error'], not only KeyError,
\* and so reports 'Unknown error' whenever the lookup fails.
ClassifyAlwaysUnknown(status_code, body) ==
    LET parsed == ParseJSON(body)
    IN  IF ~parsed.ok THEN [kind |-> "uncaught", type |-> "ValueError"]
        ELSE IF status_code # 200
        THEN [kind |-> "exit", critical |-> Str("Unknown error")]
        ELSE [kind |-> "return", val |-> parsed.val]

\* Lines 91 and 99-106.  req.json() raises a ValueError on a body that is
\* not JSON, whatever the status; neither except clause names it.
Classify(status_code, body) ==
    LET parsed == ParseJSON(body)
        sub == Subscript(parsed.val, "error")
    IN  IF ~parsed.ok THEN [kind |-> "uncaught", type |-> "ValueError"]
        ELSE IF status_code # 200
        THEN IF ~Raised(sub) THEN [kind |-> "exit", critical |-> sub.item]
             ELSE IF sub.raised = "KeyError"
             THEN [kind |-> "exit", critical |-> Str("Unknown error")]
             ELSE [kind |-> "uncaught", type |-> sub.raised]
        ELSE [kind |-> "return", val |-> parsed.val]

\* Lines 91-106: decode, classify, return to the command or end the process.
blih_response ==
    /\ pc = "response"
    /\ LET o == Classify(req[1].status_code, req[1].body)
       IN  CASE o.kind = "return" ->
                    /\ ret' = Some(o.val)
                    /\ pc' = "returned"
                    /\ UNCHANGED <<events, exitcode>>
             [] o.kind = "exit" ->
                    Exit(1, <<CriticalEvent(o.critical)>>) /\ UNCHANGED ret
             [] o.kind = "uncaught" ->
                    Uncaught(o.type, None, <<>>) /\ UNCHANGED ret
    /\ UNCHANGED <<args, fs, call, signed_data, req, prev>>

----------------------------------------------------------------------------
(* The commands (lines 108-250): each calls blih once, then prints.        *)

\* `if data['message']: print(data['message'])`, then the command returns.
PrintMessage ==
    LET msg == Subscript(ret[1], "message")
    IN  IF Raised(msg) THEN Uncaught(msg.raised, None, <<>>)
        ELSE Exit(0, IF Truthy(msg.item) THEN <<PrintEvent(<<msg.item>>)>> ELSE <<>>)

\* `for key, value in d.items(): print(key, ':', value)` on a parsed value.
PrintItems(val) ==
    IF val.t # "dict" THEN Uncaught("AttributeError", None, <<>>)
    ELSE Exit(0, [i \in 1..Len(val.v) |->
                    PrintEvent(<<Str(val.v[i][1]), Str(":"), val.v[i][2]>>)])

Returned(func) ==
    /\ pc = "returned"
    /\ args.func = func
    /\ UNCHANGED <<args, fs, call, signed_data, req, ret, prev>>

Entered(func) == pc = "main" /\ args.func = func

repository_create ==
    /\ Entered("repository_create")
    /\ CallBlih("post", "/repositories", args.user, args.token,
                Some(<<<<"name", args.name>>, <<"type", "git">>>>),
                <<PrintEvent(<<Str("vars(argument)")>>)>>)    \* line 112: print(args)

repository_create_done == Returned("repository_create") /\ PrintMessage

repository_delete ==
    /\ Entered("repository_delete")
    /\ CallBlih("delete", "/repository/" \o args.name, args.user, args.token, None, <<>>)

repository_delete_done == Returned("repository_delete") /\ PrintMessage

repository_info ==
    /\ Entered("repository_info")
    /\ CallBlih("get", "/repository/" \o args.name, args.user, args.token, None, <<>>)

repository_info_done ==
    /\ Returned("repository_info")
    /\ LET msg == Subscript(ret[1], "message")
       IN  IF Raised(msg) THEN Uncaught(msg.raised, None, <<>>)
           ELSE PrintItems(msg.item)

repository_list ==
    /\ Entered("repository_list")
    /\ CallBlih("get", "/repositories", args.user, args.token, None, <<>>)

\* `for repo in data['repositories']: print(repo)`: the keys of a dict, the
\* items of a list, the characters of a str (one event stands for them).
repository_list_done ==
    /\ Returned("repository_list")
    /\ LET repos == Subscript(ret[1], "repositories")
       IN  IF Raised(repos) THEN Uncaught(repos.raised, None, <<>>)
           ELSE LET r == repos.item
                IN  Exit(0, CASE r.t = "dict" ->
                                    [i \in 1..Len(r.v) |-> PrintEvent(<<Str(r.v[i][1])>>)]
                              [] r.t = "list" ->
                                    [i \in 1..Len(r.v) |-> PrintEvent(<<r.v[i]>>)]
                              [] r.t = "str" ->
                                    IF r.v = "" THEN <<>>
                                    ELSE <<[e |-> "print_chars", of |-> r.v]>>)

repository_getacl ==
    /\ Entered("repository_getacl")
    /\ CallBlih("get", "/repository/" \o args.name \o "/acls", args.user, args.token,
                None, <<>>)

repository_getacl_done == Returned("repository_getacl") /\ PrintItems(ret[1])

\* A setacl that signs as the user the access is granted to.
repository_setacl_as_target ==
    /\ Entered("repository_setacl")
    /\ CallBlih("post", "/repository/" \o args.name \o "/acls", args.user_acl, args.token,
                Some(<<<<"user", args.user_acl>>, <<"acl", args.acl>>>>), <<>>)

repository_setacl ==
    /\ Entered("repository_setacl")
    /\ CallBlih("post", "/repository/" \o args.name \o "/acls", args.user, args.token,
                Some(<<<<"user", args.user_acl>>, <<"acl", args.acl>>>>), <<>>)

repository_setacl_done == Returned("repository_setacl") /\ PrintMessage

\* Lines 204-217: open() may raise; only PermissionError and
\* FileNotFoundError are caught.  read() may raise UnicodeDecodeError.
sshkey_upload ==
    /\ Entered("sshkey_upload")
    /\ CASE fs.open \in {"PermissionError", "FileNotFoundError"} ->
                /\ Exit(1, <<PrintEvent(<<Str("Can't open file : " \o args.keyfile)>>)>>)
                /\ UNCHANGED <<args, fs, call, signed_data, req, ret, prev>>
         [] fs.open = "IsADirectoryError" ->
                /\ Uncaught(fs.open, Some(args.keyfile), <<>>)
                /\ UNCHANGED <<args, fs, call, signed_data, req, ret, prev>>
         [] fs.open = "opened" /\ ~fs.decodes ->
                /\ Uncaught("UnicodeDecodeError", None, <<>>)
                /\ UNCHANGED <<args, fs, call, signed_data, req, ret, prev>>
         [] fs.open = "opened" /\ fs.decodes ->
                CallBlih("post", "/sshkeys", args.user, args.token,
                         Some(<<<<"sshkey", Quote(Strip(fs.chars))>>>>), <<>>)

sshkey_upload_done == Returned("sshkey_upload") /\ PrintMessage

sshkey_list ==
    /\ Entered("sshkey_list")
    /\ CallBlih("get", "/sshkeys", args.user, args.token, None, <<>>)

\* `for comment, key in data.items(): print(key, comment)`
sshkey_list_done ==
    /\ Returned("sshkey_list")
    /\ IF ret[1].t # "dict" THEN Uncaught("AttributeError", None, <<>>)
       ELSE Exit(0, [i \in 1..Len(ret[1].v) |->
                       PrintEvent(<<ret[1].v[i][2], Str(ret[1].v[i][1])>>)])

sshkey_delete ==
    /\ Entered("sshkey_delete")
    /\ CallBlih("delete", "/sshkey/" \o args.comment, args.user, args.token, None, <<>>)

sshkey_delete_done == Returned("sshkey_delete") /\ PrintMessage

----------------------------------------------------------------------------
(* One run of the command line client.                                     *)

NoFile == [open |-> "FileNotFoundError", decodes |-> FALSE, chars |-> <<>>]

NoCall == [method |-> "", resource |-> "", user |-> "", token |-> None, data |-> None]

\* main (line 380): argument.func(vars(argument)).  The key file matters
\* to sshkey_upload alone.
Init ==
    /\ args \in Arguments
    /\ fs \in (IF args.func = "sshkey_upload" THEN FileStates ELSE {NoFile})
    /\ pc = "main"
    /\ call = NoCall
    /\ signed_data = None
    /\ req = None
    /\ ret = None
    /\ events = <<>>
    /\ exitcode = None
    /\ prev = None

Next ==
    \/ repository_create \/ repository_create_done
    \/ repository_delete \/ repository_delete_done
    \/ repository_info \/ repository_info_done
    \/ repository_list \/ repository_list_done
    \/ repository_getacl \/ repository_getacl_done
    \/ repository_setacl \/ repository_setacl_done
    \/ sshkey_upload \/ sshkey_upload_done
    \/ sshkey_list \/ sshkey_list_done
    \/ sshkey_delete \/ sshkey_delete_done
    \/ sign_data_getpass \/ sign_data_sign
    \/ blih_request \/ blih_response

Spec == Init /\ [][Next]_vars

----------------------------------------------------------------------------
(* sign_data called directly, again and again, with the credentials of the *)
(* run and any payload: `prev` keeps the previous call and its result.     *)

InitSign ==
    /\ args \in WithCredentials([func : {"sign_data"}])
    /\ fs = NoFile
    /\ pc = "sign_data"
    /\ call \in {[method |-> "", resource |-> "", user |-> args.user,
                  token |-> args.token, data |-> d] : d \in HarnessData}
    /\ signed_data = None
    /\ req = None
    /\ ret = None
    /\ events = <<>>
    /\ exitcode = None
    /\ prev = None

\* The next call of sign_data, once the last one has returned.
sign_data_again ==
    /\ pc = "request"
    /\ args.func = "sign_data"
    /\ prev' = Some([user |-> call.user, token |-> call.token[1], data |-> call.data,
                     signed_data |-> signed_data[1]])
    /\ \E d \in HarnessData :
        call' = [call EXCEPT !.token = args.token, !.data = d]
    /\ events' = <<>>    \* the trace is that of the call under way
    /\ signed_data' = None
    /\ pc' = "sign_data"
    /\ UNCHANGED <<args, fs, req, ret, exitcode>>

NextSign == sign_data_getpass \/ sign_data_sign \/ sign_data_again

SpecSign == InitSign /\ [][NextSign]_vars

----------------------------------------------------------------------------
(* Properties.                                                             *)

\* blih has classified the response it received.
Classified == req # None /\ pc # "response"

Status == req[1].status_code

Parsed == ParseJSON(req[1].body)

HasTraceback == EventsOf("traceback") # <<>>

\* C1: blih returns a value to the command iff the response has status 200
\* and a body that parses as JSON, and the value is then the parsed body;
\* after any other response the process ends fatally (exit code 1) and the
\* command is handed nothing.
C1_ReturnsIffOkJson ==
    /\ req = None => ret = None
    /\ ret # None => Status = 200 /\ Parsed.ok /\ ret = Some(Parsed.val)
    /\ Classified =>
          IF Status = 200 /\ Parsed.ok THEN ret # None
          ELSE ret = None /\ Exited(1)

C1_Witness ==
    /\ pc = "returned"
    /\ Status = 200
    /\ ret = Some(Dict(<<<<"message", Str("ok")>>>>))

\* C2: after a response whose status is not 200 and whose body is a JSON
\* mapping, the process has exit code 1 and has logged exactly one critical
\* message: the body's `error` field when present, else 'Unknown error'.
C2_Non200MappingReportsError ==
    (Classified /\ Status # 200 /\ Parsed.ok /\ Parsed.val.t = "dict") =>
        /\ Exited(1)
        /\ Criticals = <<CriticalEvent(IF "error" \in Keys(Parsed.val.v)
                                       THEN Get(Parsed.val.v, "error")
                                       ELSE Str("Unknown error"))>>

C2_Witness ==
    /\ Classified
    /\ Status = 403
    /\ Criticals = <<CriticalEvent(Str("forbidden"))>>
    /\ Exited(1)

\* C3: after a response whose status is not 200 and whose body is not
\* JSON, the process ends as after any other non-200 response: it has
\* logged the generic 'Unknown error' message and has exit code 1, and has
\* not ended any other way (no traceback).
C3_Non200GarbageReportsUnknown ==
    (Classified /\ Status # 200 /\ ~Parsed.ok) =>
        /\ Exited(1)
        /\ Criticals = <<CriticalEvent(Str("Unknown error"))>>
        /\ ~HasTraceback

\* The prompt, when there is one, comes before the request, when there is one.
PromptBeforeRequest ==
    (Prompts # <<>> /\ Requests # <<>>) => FirstIndex("getpass") < FirstIndex("request")

\* With a token on the command line: never a prompt, and the signature is
\* keyed by that token as given.
SuppliedTokenIsKey ==
    args.token # None =>
        /\ Prompts = <<>>
        /\ signed_data # None =>
              signed_data[1].signature
                  = HmacSha512Hex(args.token[1],
                                  IF DataIsTruthy(call.data)
                                  THEN call.user \o CanonicalJSON(call.data[1])
                                  ELSE call.user)

\* C4 as stated: in every run of any command, without a token exactly one
\* prompt occurs, before the HTTP request; with a token no prompt occurs
\* and the token is the HMAC key unchanged.
C4_EveryRunPromptsOnce ==
    /\ (~Running /\ args.token = None) => Len(Prompts) = 1
    /\ (Requests # <<>> /\ args.token = None) => Len(Prompts) = 1
    /\ PromptBeforeRequest
    /\ SuppliedTokenIsKey

\* C4, amended: the same of every run in which blih is called, which is
\* every run but a key upload that ends on its key file.
C4_RunsCallingBlihPromptOnce ==
    /\ Len(Prompts) <= 1
    /\ (~Running /\ call # NoCall /\ args.token = None) => Len(Prompts) = 1
    /\ (Requests # <<>> /\ args.token = None) => Len(Prompts) = 1
    /\ PromptBeforeRequest
    /\ SuppliedTokenIsKey

C4_Witness ==
    /\ args.token = None
    /\ Len(Prompts) = 1
    /\ Len(Requests) = 1
    /\ FirstIndex("getpass") < FirstIndex("request")

Interrupted == GetPassEvent("KeyboardInterrupt") \in Range(events)

\* C5: once the secret prompt is interrupted the process has exit code 1
\* and the interrupt is the last thing that happened: no signature, no
\* envelope, no HTTP request.
C5_InterruptExitsAtOnce ==
    Interrupted =>
        /\ Exited(1)
        /\ events[Len(events)] = GetPassEvent("KeyboardInterrupt")
        /\ signed_data = None
        /\ Requests = <<>>

C5_Witness == Interrupted /\ Exited(1) /\ args.func = "repository_create"

\* C6: a process issues at most one HTTP request; when the request fails
\* (nothing came back) or the response is not 200 the process has exit
\* code 1, and a process that has exit code 0 issued exactly one request.
C6_SingleShot ==
    /\ Len(Requests) <= 1
    /\ ~Running => exitcode \in {Some(0), Some(1)}
    /\ (pc = "exit" /\ Requests # <<>> /\ req = None) => Exited(1)
    /\ (Classified /\ Status # 200) => Exited(1)
    /\ Exited(0) => Len(Requests) = 1 /\ req # None /\ Status = 200

C6_Witness == Exited(0) /\ Len(Requests) = 1

\* The pairs of d in ascending key order, found by search.
Ascending(s) == \A i \in 1..(Len(s) - 1) : KeyLess(s[i][1], s[i + 1][1])

AscendingOrder(d) ==
    CHOOSE s \in [1..Len(d) -> Range(d)] : Range(s) = Range(d) /\ Ascending(s)

\* C7: the signature input lists the payload's keys in ascending order
\* whatever the construction order, so two calls of sign_data with the same
\* identity and token and the same key/value pairs, in any order or the
\* same, give the same signature.
C7_CanonicalOrder ==
    /\ (signed_data # None /\ DataIsTruthy(call.data)) =>
          signed_data[1].signature
              = HmacSha512Hex(call.token[1],
                              call.user \o FormatItems(AscendingOrder(call.data[1])))
    /\ (signed_data # None /\ prev # None /\ prev[1].user = call.user
            /\ prev[1].token = call.token[1]
            /\ (prev[1].data = None) = (call.data = None)
            /\ (call.data # None => SamePairs(prev[1].data[1], call.data[1]))) =>
          prev[1].signed_data.signature = signed_data[1].signature

C7_Witness ==
    /\ signed_data # None
    /\ prev # None
    /\ call.data = Some(<<<<"b", "1">>, <<"a", "2">>>>)
    /\ prev[1].data = Some(<<<<"a", "2">>, <<"b", "1">>>>)
    /\ prev[1].signed_data.signature = signed_data[1].signature

\* What the envelope must be when a payload counts as supplied.
EnvelopeIs(sd, user, token, data, supplied) ==
    /\ sd.user = user
    /\ IF supplied
       THEN /\ sd.data = data
            /\ sd.signature = HmacSha512Hex(token, user \o CanonicalJSON(data[1]))
       ELSE /\ sd.data = None
            /\ sd.signature = HmacSha512Hex(token, user)

\* C8 as stated: the envelope holds the identity and the signature; it
\* holds the payload exactly when a mapping, any mapping, was supplied, and
\* then the payload unchanged with the signature over identity and
\* canonical payload; with no payload it has no payload field and the
\* signature is over the identity alone.
C8_PayloadIffSupplied ==
    signed_data # None =>
        EnvelopeIs(signed_data[1], call.user, call.token[1], call.data, call.data # None)

\* C8, amended: the payload is in the envelope exactly when a non-empty
\* mapping was supplied; the empty mapping is treated as no payload.
C8_PayloadIffNonEmpty ==
    signed_data # None =>
        EnvelopeIs(signed_data[1], call.user, call.token[1], call.data,
                   call.data # None /\ call.data[1] # <<>>)

C8_Witness ==
    /\ signed_data # None
    /\ prev # None
    /\ call.data = Some(<<>>)
    /\ signed_data[1].data = None
    /\ prev[1].data = Some(<<<<"b", "1">>, <<"a", "2">>>>)
    /\ prev[1].signed_data.data = prev[1].data

\* The interface table: verb, path and payload of each command.
InterfaceTable(a) ==
    CASE a.func = "repository_create" ->
            [verb |-> "POST", path |-> "/repositories",
             payload |-> Some({<<"name", a.name>>, <<"type", "git">>})]
      [] a.func = "repository_delete" ->
            [verb |-> "DELETE", path |-> "/repository/" \o a.name, payload |-> None]
      [] a.func = "repository_info" ->
            [verb |-> "GET", path |-> "/repository/" \o a.name, payload |-> None]
      [] a.func = "repository_list" ->
            [verb |-> "GET", path |-> "/repositories", payload |-> None]
      [] a.func = "repository_getacl" ->
            [verb |-> "GET", path |-> "/repository/" \o a.name \o "/acls", payload |-> None]
      [] a.func = "repository_setacl" ->
            [verb |-> "POST", path |-> "/repository/" \o a.name \o "/acls",
             payload |-> Some({<<"user", a.user_acl>>, <<"acl", a.acl>>})]
      [] a.func = "sshkey_upload" ->
            [verb |-> "POST", path |-> "/sshkeys",
             payload |-> Some({<<"sshkey", Quote(Strip(fs.chars))>>})]
      [] a.func = "sshkey_list" ->
            [verb |-> "GET", path |-> "/sshkeys", payload |-> None]
      [] a.func = "sshkey_delete" ->
            [verb |-> "DELETE", path |-> "/sshkey/" \o a.comment, payload |-> None]

\* C9: the request of each command has the verb, path and payload of the
\* interface table, and the envelope's identity is the invoking user.
C9_CommandsFollowTable ==
    Requests # <<>> =>
        LET row == InterfaceTable(args)
            sent == Requests[1]
            sd == signed_data[1]
        IN  /\ sent.verb = row.verb
            /\ sent.url = URL \o row.path
            /\ sent.data = DumpsSignedData(sd)
            /\ sd.user = args.user
            /\ IF row.payload = None THEN sd.data = None
               ELSE sd.data # None /\ Range(sd.data[1]) = row.payload[1]

C9_Witness ==
    /\ Requests # <<>>
    /\ args.func = "repository_setacl"
    /\ args.user = "alice"
    /\ args.user_acl = "bob"
    /\ Requests[1].verb = "POST"
    /\ Requests[1].url = "https://blih.epitech.eu/repository/alice/acls"

KeyFileUnreadable == fs.open # "opened" \/ ~fs.decodes

\* A printed line or a traceback that names the path.
ReportsPath(path) ==
    \/ PrintEvent(<<Str("Can't open file : " \o path)>>) \in Range(events)
    \/ \E type \in {"FileNotFoundError", "PermissionError", "IsADirectoryError",
                   "UnicodeDecodeError"} :
            TracebackEvent(type, Some(path)) \in Range(events)

\* C10: a key upload whose key file cannot be read, for whatever reason,
\* reports a message naming the path and has exit code 1, without a prompt
\* and without an HTTP request.
C10_UnreadableKeyFileReported ==
    (args.func = "sshkey_upload" /\ KeyFileUnreadable /\ pc # "main") =>
        /\ ReportsPath(args.keyfile)
        /\ Exited(1)
        /\ Prompts = <<>>
        /\ Requests = <<>>

====
